---------------------------- MODULE Spec2Model ----------------------------
(***************************************************************************)
(* Model of src/main.py: the Creatinine Clearance (Cockcroft-Gault) tool.  *)
(*                                                                         *)
(* The program is one request handler, calculate_crcl, behind the field    *)
(* constraints of CrClFormInput.  Its arithmetic is Python float           *)
(* arithmetic, that is IEEE 754 binary64 with round-to-nearest-even.  The  *)
(* model computes it bit for bit: a float is a record                      *)
(*     [cls, sign, man, exp]   of value  (-1)^sign * man * 2^exp           *)
(* whose mantissa man is an unbounded natural number kept as a sequence of *)
(* 15-bit limbs (least significant first), because the integers of the     *)
(* model checker are 32 bits wide.  Every operation computes the exact     *)
(* result and rounds it to 53 significant bits (fewer below 2^-1022),      *)
(* overflowing to infinity at 2^1024.                                      *)
(***************************************************************************)
EXTENDS Integers, Sequences, FiniteSets, TLC

(***************************************************************************)
(* Natural numbers of any size: sequences of limbs, least significant      *)
(* first, without leading zero limbs; <<>> is zero.                        *)
(***************************************************************************)
Base == 2^15

\* the integers a and b in order
Min(a, b) == IF a <= b THEN a ELSE b

Max(a, b) == IF a >= b THEN a ELSE b

Pow2(n) == 2^n

Rest(a) == IF a = <<>> THEN <<>> ELSE Tail(a)

Low(a) == IF a = <<>> THEN 0 ELSE Head(a)

RECURSIVE BNorm(_)
BNorm(a) ==
    IF a = <<>> THEN a
    ELSE IF a[Len(a)] = 0 THEN BNorm(SubSeq(a, 1, Len(a) - 1)) ELSE a

RECURSIVE BFromNat(_)
BFromNat(n) == IF n = 0 THEN <<>> ELSE <<n % Base>> \o BFromNat(n \div Base)

RECURSIVE BToNat(_)
BToNat(a) == IF a = <<>> THEN 0 ELSE Head(a) + Base * BToNat(Tail(a))

RECURSIVE BAddC(_, _, _)
BAddC(a, b, c) ==
    IF a = <<>> /\ b = <<>> THEN (IF c = 0 THEN <<>> ELSE <<c>>)
    ELSE LET s == Low(a) + Low(b) + c
         IN  <<s % Base>> \o BAddC(Rest(a), Rest(b), s \div Base)

BAdd(a, b) == BAddC(a, b, 0)

\* a - b - c for a >= b + c, limb by limb with a borrow; not normalised
RECURSIVE BSubC(_, _, _)
BSubC(a, b, c) ==
    IF a = <<>> THEN <<>>
    ELSE LET s == Head(a) - Low(b) - c
         IN  IF s < 0 THEN <<s + Base>> \o BSubC(Tail(a), Rest(b), 1)
                      ELSE <<s>> \o BSubC(Tail(a), Rest(b), 0)

BSub(a, b) == BNorm(BSubC(a, b, 0))

\* -1, 0 or 1 as a < b, a = b or a > b
RECURSIVE BCmpTop(_, _, _)
BCmpTop(a, b, i) ==
    IF i = 0 THEN 0
    ELSE IF a[i] < b[i] THEN -1
    ELSE IF a[i] > b[i] THEN 1
    ELSE BCmpTop(a, b, i - 1)

BCmp(a, b) ==
    IF Len(a) < Len(b) THEN -1
    ELSE IF Len(a) > Len(b) THEN 1
    ELSE BCmpTop(a, b, Len(a))

\* a * k + c for a small k (k < Base)
RECURSIVE BMulSmallC(_, _, _)
BMulSmallC(a, k, c) ==
    IF a = <<>> THEN (IF c = 0 THEN <<>> ELSE <<c>>)
    ELSE LET s == Head(a) * k + c
         IN  <<s % Base>> \o BMulSmallC(Tail(a), k, s \div Base)

BMulSmall(a, k) == IF k = 0 THEN <<>> ELSE BMulSmallC(a, k, 0)

ShiftLimb(a) == IF a = <<>> THEN <<>> ELSE <<0>> \o a

RECURSIVE BMul(_, _)
BMul(a, b) ==
    IF a = <<>> \/ b = <<>> THEN <<>>
    ELSE BAdd(BMulSmall(a, Head(b)), ShiftLimb(BMul(a, Tail(b))))

RECURSIVE ShiftLimbs(_, _)
ShiftLimbs(a, n) == IF n = 0 THEN a ELSE ShiftLimbs(ShiftLimb(a), n - 1)

\* a * 2^n
BShl(a, n) == ShiftLimbs(BMulSmall(a, Pow2(n % 15)), n \div 15)

\* <<quotient limbs, remainder>> of the limbs a[i..Len(a)] divided by a small k
RECURSIVE BDivSmallTop(_, _, _)
BDivSmallTop(a, k, i) ==
    IF i > Len(a) THEN << <<>>, 0 >>
    ELSE LET hi == BDivSmallTop(a, k, i + 1)
             s  == hi[2] * Base + a[i]
         IN  << <<s \div k>> \o hi[1], s % k >>

\* floor(a / k) for a small k (k < Base)
BDivSmall(a, k) == BNorm(BDivSmallTop(a, k, 1)[1])

\* floor(a / 2^n)
BShr(a, n) ==
    IF n \div 15 >= Len(a) THEN <<>>
    ELSE BDivSmall(SubSeq(a, n \div 15 + 1, Len(a)), Pow2(n % 15))

\* bit i of a (bit 0 is the least significant)
BBit(a, i) ==
    IF i < 0 \/ i \div 15 >= Len(a) THEN 0
    ELSE (a[i \div 15 + 1] \div Pow2(i % 15)) % 2

RECURSIVE SmallBitLen(_)
SmallBitLen(k) == IF k = 0 THEN 0 ELSE 1 + SmallBitLen(k \div 2)

BBitLen(a) == IF a = <<>> THEN 0 ELSE 15 * (Len(a) - 1) + SmallBitLen(a[Len(a)])

\* whether the n least significant bits of a are all zero
BLowZero(a, n) ==
    /\ \A j \in 1..Len(a) : j <= n \div 15 => a[j] = 0
    /\ n \div 15 < Len(a) => a[n \div 15 + 1] % Pow2(n % 15) = 0

RECURSIVE SmallTrailingZeros(_)
SmallTrailingZeros(k) == IF k % 2 = 1 THEN 0 ELSE 1 + SmallTrailingZeros(k \div 2)

\* the number of trailing zero bits of a > 0
RECURSIVE BTrailingZeros(_)
BTrailingZeros(a) ==
    IF Head(a) = 0 THEN 15 + BTrailingZeros(Tail(a))
    ELSE SmallTrailingZeros(Head(a))

\* the estimate of one quotient limb (Knuth's algorithm D) for r < b * Base
\* and b normalised (its top limb >= Base / 2): the top two limbs of r
\* divided by the top limb of b; at most 2 above the true limb
QuotEst(r, b) ==
    Min(Base - 1,
        ((IF Len(r) > Len(b) THEN r[Len(b) + 1] ELSE 0) * Base
            + (IF Len(r) >= Len(b) THEN r[Len(b)] ELSE 0)) \div b[Len(b)])

\* <<q, r - q * b>> for the largest of q, q - 1, q - 2 whose product fits
QuotFix(r, b, q) ==
    IF BCmp(BMulSmall(b, q), r) <= 0 THEN <<q, BSub(r, BMulSmall(b, q))>>
    ELSE IF BCmp(BMulSmall(b, q - 1), r) <= 0
         THEN <<q - 1, BSub(r, BMulSmall(b, q - 1))>>
    ELSE <<q - 2, BSub(r, BMulSmall(b, q - 2))>>

\* one step of long division: the limb x is brought down below the
\* remainder of the limbs above it
QuotStep(hi, x, b) ==
    IF hi[2] = <<>> /\ x = 0 THEN <<0, <<>> >>
    ELSE QuotFix(BNorm(<<x>> \o hi[2]), b, QuotEst(BNorm(<<x>> \o hi[2]), b))

QuotJoin(hi, step) == << <<step[1]>> \o hi[1], step[2] >>

QuotNext(hi, x, b) == QuotJoin(hi, QuotStep(hi, x, b))

\* <<quotient, remainder>> of the number made of the limbs a[i..Len(a)]
\* divided by a normalised b: long division, one limb of a at a time
RECURSIVE BDivModTop(_, _, _)
BDivModTop(a, b, i) ==
    IF i > Len(a) THEN << <<>>, <<>> >>
    ELSE QuotNext(BDivModTop(a, b, i + 1), a[i], b)

BDivModScaled(qr, s) == <<BNorm(qr[1]), BShr(qr[2], s)>>

BDivModBy(a, b, s) == BDivModScaled(BDivModTop(BShl(a, s), BShl(b, s), 1), s)

\* <<floor(a / b), a mod b>> for b > 0: both are scaled to normalise b
BDivMod(a, b) == BDivModBy(a, b, 15 - SmallBitLen(b[Len(b)]))

(***************************************************************************)
(* Python floats (IEEE 754 binary64).  A finite float is kept with an odd  *)
(* mantissa (zero: mantissa <<>>, exponent 0, the sign kept), so that one  *)
(* float has one representation.                                           *)
(***************************************************************************)
Fin(sign, man, exp) == [cls |-> "fin", sign |-> sign, man |-> man, exp |-> exp]

Zero(sign) == Fin(sign, <<>>, 0)

Inf(sign) == [cls |-> "inf", sign |-> sign, man |-> <<>>, exp |-> 0]

NaN == [cls |-> "nan", sign |-> 0, man |-> <<>>, exp |-> 0]

IsZero(x) == x.cls = "fin" /\ x.man = <<>>

\* (-1)^sign * m * 2^(e + tz) for m > 0, tz trailing zero bits of m dropped
CanonBy(sign, m, e, tz) == Fin(sign, BShr(m, tz), e + tz)

\* (-1)^sign * m * 2^e for m > 0, with the trailing zero bits of m moved
\* into the exponent
Canon(sign, m, e) == CanonBy(sign, m, e, BTrailingZeros(m))

\* whether dropping the sh low bits of n rounds up: round half to even
RoundsUp(n, sh) ==
    /\ BBit(n, sh - 1) = 1
    /\ ~BLowZero(n, sh - 1) \/ BBit(n, sh) = 1

\* n without its sh low bits, rounded
Rounded(n, sh) ==
    IF RoundsUp(n, sh) THEN BAddC(BShr(n, sh), <<>>, 1) ELSE BShr(n, sh)

\* the place of the least significant bit kept of a number of len bits whose
\* lowest bit is at e: 53 bits are kept, but none below 2^-1074 (subnormals)
Lsb(e, len) == IF e + len - 53 < -1074 THEN -1074 ELSE e + len - 53

\* (-1)^sign * m * 2^e as a float, for m of at most 53 bits: 2^1024 and
\* above is infinity
Pack(sign, m, e) ==
    IF m = <<>> THEN Zero(sign)
    ELSE IF BBitLen(m) + e > 1024 THEN Inf(sign)
    ELSE Canon(sign, m, e)

RoundAt(sign, n, e, lsb) ==
    IF lsb <= e THEN Pack(sign, n, e) ELSE Pack(sign, Rounded(n, lsb - e), lsb)

\* the float nearest to (-1)^sign * n * 2^e, ties to the even mantissa
RoundPack(sign, n, e) == RoundAt(sign, n, e, Lsb(e, BBitLen(n)))

Abs(n) == IF n < 0 THEN -n ELSE n

\* int -> float, exact for the integers of the model
FromInt(n) ==
    IF n = 0 THEN Zero(0)
    ELSE Canon(IF n < 0 THEN 1 ELSE 0, BFromNat(Abs(n)), 0)

FNeg(x) == IF x.cls = "nan" THEN x ELSE [x EXCEPT !.sign = 1 - x.sign]

\* the position above the top bit of a finite nonzero float
Top(x) == x.exp + BBitLen(x.man)

\* x + y for finite nonzero x and y whose top bits are more than 64 places
\* apart (x the larger): x is widened to 61 bits, and y only decides on
\* which side of x the sum lies
FAddFar(x, y) ==
    RoundPack(x.sign,
              IF x.sign = y.sign
              THEN BAddC(BShl(x.man, 61 - BBitLen(x.man)), <<>>, 1)
              ELSE BSub(BShl(x.man, 61 - BBitLen(x.man)), <<1>>),
              x.exp - (61 - BBitLen(x.man)))

\* the sum of (-1)^sx * mx * 2^e and (-1)^sy * my * 2^e, rounded
FAddAligned(sx, mx, sy, my, e) ==
    IF sx = sy THEN RoundPack(sx, BAdd(mx, my), e)
    ELSE IF BCmp(mx, my) = 0 THEN Zero(0)
    ELSE IF BCmp(mx, my) > 0 THEN RoundPack(sx, BSub(mx, my), e)
    ELSE RoundPack(sy, BSub(my, mx), e)

\* x + y for finite nonzero x and y: the exact sum, rounded
FAddNear(x, y) ==
    FAddAligned(x.sign, BShl(x.man, x.exp - Min(x.exp, y.exp)),
                y.sign, BShl(y.man, y.exp - Min(x.exp, y.exp)),
                Min(x.exp, y.exp))

\* float + float
FAdd(x, y) ==
    IF x.cls = "nan" \/ y.cls = "nan" THEN NaN
    ELSE IF x.cls = "inf" THEN (IF y.cls = "inf" /\ y.sign # x.sign THEN NaN ELSE x)
    ELSE IF y.cls = "inf" THEN y
    ELSE IF x.man = <<>>
         THEN (IF y.man = <<>> THEN Zero(IF x.sign = 1 /\ y.sign = 1 THEN 1 ELSE 0) ELSE y)
    ELSE IF y.man = <<>> THEN x
    ELSE IF Top(x) - Top(y) > 64 THEN FAddFar(x, y)
    ELSE IF Top(y) - Top(x) > 64 THEN FAddFar(y, x)
    ELSE FAddNear(x, y)

\* float - float
FSub(x, y) == FAdd(x, FNeg(y))

Xor(a, b) == IF a = b THEN 0 ELSE 1

\* float * float
FMul(x, y) ==
    IF x.cls = "nan" \/ y.cls = "nan" THEN NaN
    ELSE IF x.cls = "inf" \/ y.cls = "inf"
         THEN (IF IsZero(x) \/ IsZero(y) THEN NaN ELSE Inf(Xor(x.sign, y.sign)))
    ELSE RoundPack(Xor(x.sign, y.sign), BMul(x.man, y.man), x.exp + y.exp)

\* the quotient qr[1] with one more low bit that says whether a remainder
\* qr[2] is left
WithSticky(qr) == BAddC(qr[1], qr[1], IF qr[2] = <<>> THEN 0 ELSE 1)

FDivBy(x, y, k) ==
    RoundPack(Xor(x.sign, y.sign), WithSticky(BDivMod(BShl(x.man, k), y.man)),
              x.exp - y.exp - k - 1)

\* x / y for finite nonzero x and y: the quotient of the mantissas to at least
\* 56 bits, rounded
FDivFinite(x, y) == FDivBy(x, y, Max(0, 56 + BBitLen(y.man) - BBitLen(x.man)))

\* float / float for a divisor that is not zero (Python raises
\* ZeroDivisionError for a zero divisor: see ZeroDivisor below)
FDiv(x, y) ==
    IF x.cls = "nan" \/ y.cls = "nan" THEN NaN
    ELSE IF x.cls = "inf"
         THEN (IF y.cls = "inf" THEN NaN ELSE Inf(Xor(x.sign, y.sign)))
    ELSE IF y.cls = "inf" \/ IsZero(x) THEN Zero(Xor(x.sign, y.sign))
    ELSE IF IsZero(y) THEN NaN
    ELSE FDivFinite(x, y)

\* -1, 0, 1: the order of the magnitudes of finite nonzero x and y
MagCmp(x, y) ==
    IF Top(x) < Top(y) THEN -1
    ELSE IF Top(x) > Top(y) THEN 1
    ELSE BCmp(BShl(x.man, x.exp - Min(x.exp, y.exp)),
              BShl(y.man, y.exp - Min(x.exp, y.exp)))

\* float > float (False when either is NaN; -0.0 = 0.0)
FGt(x, y) ==
    IF x.cls = "nan" \/ y.cls = "nan" THEN FALSE
    ELSE IF x.cls = "inf" THEN x.sign = 0 /\ ~(y.cls = "inf" /\ y.sign = 0)
    ELSE IF y.cls = "inf" THEN y.sign = 1
    ELSE IF IsZero(x) THEN ~IsZero(y) /\ y.sign = 1
    ELSE IF IsZero(y) THEN x.sign = 0
    ELSE IF x.sign # y.sign THEN x.sign = 0
    ELSE IF x.sign = 0 THEN MagCmp(x, y) > 0
    ELSE MagCmp(x, y) < 0

\* the integer nearest to m * 2^e, ties to the even integer
RoundHalfEven(m, e) ==
    IF e >= 0 THEN BToNat(BShl(m, e))
    ELSE BToNat(BShr(m, -e)) + (IF RoundsUp(m, -e) THEN 1 ELSE 0)

\* int(x) in place of round(x): the fraction dropped
PyTruncate(x) ==
    IF x.sign = 1
    THEN -(IF x.exp >= 0 THEN BToNat(BShl(x.man, x.exp)) ELSE BToNat(BShr(x.man, -x.exp)))
    ELSE IF x.exp >= 0 THEN BToNat(BShl(x.man, x.exp)) ELSE BToNat(BShr(x.man, -x.exp))

\* round(x) of a finite float: an int
PyRound(x) ==
    IF x.sign = 1 THEN -RoundHalfEven(x.man, x.exp) ELSE RoundHalfEven(x.man, x.exp)

\* the float a decimal literal n / 10^k denotes: the float nearest to it (n
\* and 10^k are floats exactly, and the division rounds correctly)
Dec(n, k) == FDiv(FromInt(n), FromInt(10^k))

\* the sign, the tenths t \div 10 and the digit t % 10 as text
Tenths(sign, t) ==
    (IF sign = 1 THEN "-" ELSE "") \o ToString(t \div 10) \o "." \o ToString(t % 10)

\* format(x, ".1f") of a finite float below 10^8 in magnitude: one decimal
\* place, ties to the even digit.  str(round(x, 1)) prints the same digits.
Fixed1(x) == Tenths(x.sign, RoundHalfEven(BMulSmall(x.man, 10), x.exp))

(***************************************************************************)
(* The request: the fields of the submitted form.                          *)
(***************************************************************************)
\* 0.453592 and 2.54 (lines 107, 111), 2.3 and 45.5 (lines 82, 84),
\* 0.4 (line 118), 0.85 (line 123)
LbToKg == Dec(453592, 6)

CmPerInch == Dec(254, 2)

IbwPerInch == Dec(23, 1)

IbwBaseFemale == Dec(455, 1)

AbwShare == Dec(4, 1)

FemaleFactor == Dec(85, 2)

\* the field constraints of CrClFormInput: Literal[...], gt=0, ge=18
UnitOk(form) == form.unit_system \in {"metric", "imperial"}

WeightOk(form) == FGt(form.weight, FromInt(0))

HeightOk(form) == FGt(form.height, FromInt(0))

\* gt=18 in place of ge=18
AgeOver18(form) == form.age > 18

AgeOk(form) == form.age >= 18

CreatinineOk(form) == FGt(form.serum_creatinine, FromInt(0))

SexOk(form) == form.sex \in {"male", "female"}

CrClFormInput(form) ==
    /\ UnitOk(form)
    /\ WeightOk(form)
    /\ HeightOk(form)
    /\ AgeOk(form)
    /\ CreatinineOk(form)
    /\ SexOk(form)

(***************************************************************************)
(* calculate_crcl, expression by expression.                               *)
(***************************************************************************)
\* the conversion of pounds applied to the metric weight instead
weight_in_kg_swapped(data) ==
    IF data.unit_system = "metric" THEN FMul(data.weight, LbToKg) ELSE data.weight

weight_in_kg(data) ==
    IF data.unit_system = "imperial" THEN FMul(data.weight, LbToKg) ELSE data.weight

height_in_inches(data) ==
    IF data.unit_system = "imperial" THEN data.height ELSE FDiv(data.height, CmPerInch)

\* calculate_ibw with a floor at 0
calculate_ibw_floored(height, sex) ==
    IF FGt(FromInt(0),
           FAdd(IF sex = "male" THEN FromInt(50) ELSE IbwBaseFemale,
                FMul(IbwPerInch, FSub(height, FromInt(60)))))
    THEN FromInt(0)
    ELSE FAdd(IF sex = "male" THEN FromInt(50) ELSE IbwBaseFemale,
              FMul(IbwPerInch, FSub(height, FromInt(60))))

calculate_ibw(height, sex) ==
    IF sex = "male"
    THEN FAdd(FromInt(50), FMul(IbwPerInch, FSub(height, FromInt(60))))
    ELSE FAdd(IbwBaseFemale, FMul(IbwPerInch, FSub(height, FromInt(60))))

\* the adjustment applied when weight <= ibw instead of when weight > ibw
adjusted_body_weight_inverted(weight, ibw) ==
    IF FGt(weight, ibw) THEN weight ELSE FAdd(ibw, FMul(AbwShare, FSub(weight, ibw)))

adjusted_body_weight(weight, ibw) ==
    IF FGt(weight, ibw) THEN FAdd(ibw, FMul(AbwShare, FSub(weight, ibw))) ELSE weight

sex_factor(sex) == IF sex = "female" THEN FemaleFactor ELSE FromInt(1)

\* the divisor of the three formulas
divisor(data) == FMul(FromInt(72), data.serum_creatinine)

\* the three formulas before rounding (lines 126-138)
original_crcl(data, weight, factor) ==
    FDiv(FMul(FMul(FromInt(140 - data.age), weight), factor), divisor(data))

modified_crcl(data, abw, factor) ==
    FDiv(FMul(FMul(FromInt(140 - data.age), abw), factor), divisor(data))

\* the third formula with the weight entered in place of the IBW
crcl_using_weight(data, ibw, factor) ==
    FDiv(FMul(FMul(FromInt(140 - data.age), data.weight), factor), divisor(data))

crcl_using_ibw(data, ibw, factor) ==
    FDiv(FMul(FMul(FromInt(140 - data.age), ibw), factor), divisor(data))

\* max in place of min, and min in place of max
range_low_as_max(using_ibw, modified) == Max(using_ibw, modified)

range_high_as_min(using_ibw, modified) == Min(using_ibw, modified)

\* the range without its unit
crcl_range_bare(using_ibw, modified) ==
    Fixed1(FromInt(Min(using_ibw, modified))) \o "-"
        \o Fixed1(FromInt(Max(using_ibw, modified)))

\* line 146: the two rounded values in order, each with one decimal place
range_low(using_ibw, modified) == Min(using_ibw, modified)

range_high(using_ibw, modified) == Max(using_ibw, modified)

crcl_range(using_ibw, modified) ==
    Fixed1(FromInt(range_low(using_ibw, modified))) \o "-"
        \o Fixed1(FromInt(range_high(using_ibw, modified))) \o " mL/min"

\* the floats of the handler, local by local in the order of the code, up
\* to the three unrounded clearances
AfterAbw(data, w, h, ibw, abw, f) ==
    [weight_in_kg |-> w, height_in_inches |-> h, ibw |-> ibw, abw |-> abw,
     sex_factor |-> f,
     original |-> original_crcl(data, w, f),
     modified |-> modified_crcl(data, abw, f),
     using_ibw |-> crcl_using_ibw(data, ibw, f)]

AfterIbw(data, w, h, ibw) ==
    AfterAbw(data, w, h, ibw, adjusted_body_weight(w, ibw), sex_factor(data.sex))

AfterUnits(data, w, h) == AfterIbw(data, w, h, calculate_ibw(h, data.sex))

Floats(data) == AfterUnits(data, weight_in_kg(data), height_in_inches(data))

\* what round() raises for a float that is not finite
RoundError(x) == IF x.cls = "inf" THEN "OverflowError" ELSE "ValueError"

\* the exception calculate_crcl ends with, "" when it returns: the division
\* of line 127 raises for a zero divisor, round() of lines 141-143 for an
\* infinity or a NaN
Raised(data, v) ==
    IF IsZero(divisor(data)) THEN "ZeroDivisionError"
    ELSE IF v.original.cls # "fin" THEN RoundError(v.original)
    ELSE IF v.modified.cls # "fin" THEN RoundError(v.modified)
    ELSE IF v.using_ibw.cls # "fin" THEN RoundError(v.using_ibw)
    ELSE ""

\* the local variables when calculate_crcl returns (lines 141-146)
Rounded3(v, original, modified, using_ibw) ==
    [weight_in_kg |-> v.weight_in_kg, height_in_inches |-> v.height_in_inches,
     ibw |-> v.ibw, abw |-> v.abw, sex_factor |-> v.sex_factor,
     original_crcl |-> original,
     modified_crcl |-> modified,
     crcl_using_ibw |-> using_ibw,
     range_low |-> range_low(using_ibw, modified),
     range_high |-> range_high(using_ibw, modified),
     crcl_range |-> crcl_range(using_ibw, modified)]

Locals(v) == Rounded3(v, PyRound(v.original), PyRound(v.modified), PyRound(v.using_ibw))

\* the CrClFormOutput returned (lines 148-152)
CrClFormOutput(l) ==
    [original_crcl |->
         ToString(l.original_crcl)
             \o " mL/min\nCreatinine clearance, original Cockcroft-Gault",
     modified_crcl |->
         ToString(l.modified_crcl)
             \o " mL/min\nCreatinine clearance modified for overweight patient, using adjusted body weight of "
             \o Fixed1(l.abw) \o " kg (" \o Fixed1(FDiv(l.abw, LbToKg)) \o " lbs).",
     crcl_range |-> l.crcl_range \o " mL/min"]

(***************************************************************************)
(* The forms submitted.  The valid ones: a grid of ordinary values, the    *)
(* second scenario of the specification, weights next to and equal to the  *)
(* ideal body weight of a 152.4 cm (60 in) patient, and weights near the   *)
(* largest float.  The invalid ones: every valid form of the grid with one *)
(* field replaced by a value its constraint refuses, and a form with every *)
(* field refused.                                                          *)
(***************************************************************************)
Form(unit_system, weight, height, age, serum_creatinine, sex) ==
    [unit_system |-> unit_system, weight |-> weight, height |-> height,
     age |-> age, serum_creatinine |-> serum_creatinine, sex |-> sex]

GridForms ==
    [unit_system : {"metric", "imperial"},
     weight : {FromInt(70), FromInt(125)},
     height : {FromInt(60), FromInt(170)},
     age : {18, 45, 140, 150},
     serum_creatinine : {Dec(11, 1)},
     sex : {"male", "female"}]

\* 50.00000000000001, the float after 50.0 (0x1.9000000000001p+5)
JustOver50 == Fin(0, <<1, 0, 0, 200>>, -47)

\* 1e308 (0x1.1ccf385ebc8a0p+1023)
Huge == Fin(0, <<24133, 14430, 14750, 4>>, 976)

SpecialForms ==
    {Form("imperial", FromInt(110), FromInt(64), 30, Dec(9, 1), "female"),
     Form("metric", Dec(56699, 3), Dec(1524, 1), 45, Dec(11, 1), "male"),
     Form("metric", Dec(56699, 3), Dec(1524, 1), 45, Dec(11, 1), "female"),
     Form("metric", JustOver50, Dec(1524, 1), 45, Dec(11, 1), "male"),
     Form("metric", FromInt(50), Dec(1524, 1), 45, Dec(11, 1), "male"),
     Form("metric", Huge, FromInt(170), 18, Dec(11, 1), "male"),
     Form("metric", Huge, FromInt(60), 150, Dec(11, 1), "female")}

NotPositive == {Zero(0), FromInt(-1)}

InvalidForms ==
    {[f EXCEPT !.unit_system = "stone"] : f \in GridForms}
        \cup {[f EXCEPT !.weight = x] : f \in GridForms, x \in NotPositive}
        \cup {[f EXCEPT !.height = x] : f \in GridForms, x \in NotPositive}
        \cup {[f EXCEPT !.age = 17] : f \in GridForms}
        \cup {[f EXCEPT !.serum_creatinine = x] : f \in GridForms, x \in NotPositive}
        \cup {[f EXCEPT !.sex = "other"] : f \in GridForms}
        \cup {Form("stone", Zero(0), FromInt(-1), 17, Zero(0), "other")}

Forms == GridForms \cup SpecialForms \cup InvalidForms

(***************************************************************************)
(* The service: a request is received, then either refused by validation   *)
(* (422) or handed to calculate_crcl, which returns (200) or raises (500); *)
(* the response is then delivered.  Nothing is kept between requests by    *)
(* the program; prev is the record of the last request served with a 200,  *)
(* kept to compare two requests.                                           *)
(***************************************************************************)
VARIABLES pc, form, response, locals, prev

vars == <<pc, form, response, locals, prev>>

None == [set |-> FALSE]

Init ==
    /\ pc = "idle"
    /\ form = None
    /\ response = None
    /\ locals = None
    /\ prev = None

\* a client posts a form to /calculate_crcl/
Submit ==
    /\ pc = "idle"
    /\ \E f \in Forms : form' = f
    /\ pc' = "received"
    /\ UNCHANGED <<response, locals, prev>>

\* the names of the fields whose constraint the form breaks
Violations(f) ==
    {n \in {"unit_system", "weight", "height", "age", "serum_creatinine", "sex"} :
        \/ n = "unit_system" /\ ~UnitOk(f)
        \/ n = "weight" /\ ~WeightOk(f)
        \/ n = "height" /\ ~HeightOk(f)
        \/ n = "age" /\ ~AgeOk(f)
        \/ n = "serum_creatinine" /\ ~CreatinineOk(f)
        \/ n = "sex" /\ ~SexOk(f)}

\* validation refuses the form: calculate_crcl is not called
Reject ==
    /\ pc = "received"
    /\ ~CrClFormInput(form)
    /\ response' = [set |-> TRUE, status |-> 422, detail |-> Violations(form)]
    /\ pc' = "responded"
    /\ UNCHANGED <<form, locals, prev>>

\* calculate_crcl returns: the response carries its output
Return(l) ==
    /\ locals' = [set |-> TRUE] @@ l
    /\ response' = [set |-> TRUE, status |-> 200, body |-> CrClFormOutput(l)]

\* calculate_crcl raises: the request ends with a server error
Raise(e) ==
    /\ locals' = None
    /\ response' = [set |-> TRUE, status |-> 500, detail |-> e]

Finish(data, v) ==
    IF Raised(data, v) = "" THEN Return(Locals(v)) ELSE Raise(Raised(data, v))

\* validation passes and calculate_crcl runs
calculate_crcl ==
    /\ pc = "received"
    /\ CrClFormInput(form)
    /\ Finish(form, Floats(form))
    /\ pc' = "responded"
    /\ UNCHANGED <<form, prev>>

\* the response is sent; the handler's frame is gone
Deliver ==
    /\ pc = "responded"
    /\ prev' = IF response.status = 200
               THEN [set |-> TRUE, form |-> form, locals |-> locals,
                     body |-> response.body]
               ELSE prev
    /\ pc' = "idle"
    /\ form' = None
    /\ response' = None
    /\ locals' = None

Next == Submit \/ Reject \/ calculate_crcl \/ Deliver

Spec == Init /\ [][Next]_vars

(***************************************************************************)
(* Properties.  The definitions below state the specification's sentences  *)
(* over the values the program computed; they do not use the operators of  *)
(* calculate_crcl above, only float arithmetic.                            *)
(***************************************************************************)
\* a response with the handler's result is waiting to be delivered
Served == pc = "responded" /\ response.status = 200

\* x > 0, read off the float itself
IsPositive(x) == x.cls # "nan" /\ x.sign = 0 /\ ~IsZero(x)

IsNegative(x) == x.cls # "nan" /\ x.sign = 1 /\ ~IsZero(x)

\* x <= y
FLe(x, y) == x = y \/ FGt(y, x)

\* the Cockcroft-Gault formula of the specification for the weight term w:
\* (140 - age) * w * sex_factor / (72 * serum_creatinine)
CockcroftGault(age, w, factor, creatinine) ==
    FDiv(FMul(FMul(FromInt(140 - age), w), factor), FMul(FromInt(72), creatinine))

\* the integer r is the integer nearest to the float x, the even one of the
\* two when x lies halfway: |x - r| <= 1/2, and r is even when |x - r| = 1/2
Nearest(r, x) ==
    /\ FLe(FSub(x, FromInt(r)), Dec(5, 1))
    /\ FLe(FSub(FromInt(r), x), Dec(5, 1))
    /\ (FSub(x, FromInt(r)) = Dec(5, 1) \/ FSub(FromInt(r), x) = Dec(5, 1)) => r % 2 = 0

\* the first scenario of the specification
Scenario1 == Form("metric", FromInt(70), FromInt(170), 45, Dec(11, 1), "male")

\* C1 as amended: when the handler returns and age <= 140, the rounded
\* modified_crcl is at most the rounded original_crcl if weight_kg > IBW;
\* for every age the two are equal if weight_kg <= IBW.
C1_ModifiedAtMostOriginal ==
    Served =>
        /\ (FGt(locals.weight_in_kg, locals.ibw) /\ form.age <= 140)
               => locals.modified_crcl <= locals.original_crcl
        /\ ~FGt(locals.weight_in_kg, locals.ibw)
               => locals.modified_crcl = locals.original_crcl

\* C1 as claimed, for every age
C1_AsClaimed ==
    Served =>
        /\ FGt(locals.weight_in_kg, locals.ibw)
               => locals.modified_crcl <= locals.original_crcl
        /\ ~FGt(locals.weight_in_kg, locals.ibw)
               => locals.modified_crcl = locals.original_crcl

C1_Witness ==
    /\ Served
    /\ FGt(locals.weight_in_kg, locals.ibw)
    /\ form.age <= 140
    /\ locals.modified_crcl < locals.original_crcl

\* C2: a form is accepted exactly when weight, height and serum_creatinine
\* are positive, age >= 18, unit_system is metric or imperial and sex is male
\* or female; a refused form gets a validation error (422) and calculate_crcl
\* has computed nothing for it.
C2_ValidationExact ==
    pc = "responded" =>
        /\ response.status # 422 <=>
               /\ IsPositive(form.weight)
               /\ IsPositive(form.height)
               /\ IsPositive(form.serum_creatinine)
               /\ form.age >= 18
               /\ form.unit_system \in {"metric", "imperial"}
               /\ form.sex \in {"male", "female"}
        /\ form.age = 17 => response.status = 422
        /\ response.status = 422 => locals = None /\ response.detail # {}

C2_Witness == pc = "responded" /\ form.age = 18 /\ response.status = 200

\* C3: every form that passes validation is answered with a result: the
\* handler has no failure outcome.
C3_NoFailure ==
    (pc = "responded" /\ response.status # 422) =>
        /\ response.status = 200
        /\ DOMAIN response.body = {"original_crcl", "modified_crcl", "crcl_range"}

\* C4: range_low <= range_high, range_low is the smaller and range_high the
\* larger of the rounded crcl_using_ibw and modified_crcl, whatever the
\* rounded original_crcl is.
C4_RangeFromIbwAndModified ==
    Served =>
        /\ locals.range_low <= locals.range_high
        /\ {locals.range_low, locals.range_high}
               = {locals.crcl_using_ibw, locals.modified_crcl}

C4_Witness ==
    /\ Served
    /\ locals.range_low < locals.range_high
    /\ locals.original_crcl > locals.range_high

\* C5: two requests that differ only in weight get the same IBW and the same
\* rounded crcl_using_ibw.
C5_IbwIndependentOfWeight ==
    (Served /\ prev.set
        /\ prev.form.unit_system = form.unit_system
        /\ prev.form.height = form.height
        /\ prev.form.sex = form.sex
        /\ prev.form.age = form.age
        /\ prev.form.serum_creatinine = form.serum_creatinine)
    => /\ locals.ibw = prev.locals.ibw
       /\ locals.crcl_using_ibw = prev.locals.crcl_using_ibw

C5_Witness ==
    /\ Served /\ prev.set
    /\ [prev.form EXCEPT !.weight = form.weight] = form
    /\ prev.form.weight # form.weight
    /\ prev.locals.original_crcl # locals.original_crcl
    /\ locals.crcl_using_ibw # 0

\* C6: each of the three clearances is the integer nearest to
\* (140 - age) * W * sex_factor / (72 * serum_creatinine), with sex_factor
\* 0.85 for female and 1.0 for male, W = weight_kg for original_crcl, ABW for
\* modified_crcl (IBW + 0.4 * (weight_kg - IBW) if weight_kg > IBW, else
\* weight_kg) and IBW for crcl_using_ibw; the first scenario yields 84 and 81.
C6_ThreeClearances ==
    Served =>
        /\ locals.sex_factor = IF form.sex = "female" THEN Dec(85, 2) ELSE FromInt(1)
        /\ locals.abw =
               IF FGt(locals.weight_in_kg, locals.ibw)
               THEN FAdd(locals.ibw,
                         FMul(Dec(4, 1), FSub(locals.weight_in_kg, locals.ibw)))
               ELSE locals.weight_in_kg
        /\ Nearest(locals.original_crcl,
                   CockcroftGault(form.age, locals.weight_in_kg, locals.sex_factor,
                                  form.serum_creatinine))
        /\ Nearest(locals.modified_crcl,
                   CockcroftGault(form.age, locals.abw, locals.sex_factor,
                                  form.serum_creatinine))
        /\ Nearest(locals.crcl_using_ibw,
                   CockcroftGault(form.age, locals.ibw, locals.sex_factor,
                                  form.serum_creatinine))
        /\ form = Scenario1
               => locals.original_crcl = 84 /\ locals.modified_crcl = 81

C6_Witness ==
    /\ Served
    /\ form = Scenario1
    /\ locals.original_crcl = 84
    /\ locals.modified_crcl = 81

\* C7: the crcl_range returned is "<range_low>.0-<range_high>.0 mL/min mL/min":
\* one decimal place, always 0, and the unit twice.
C7_RangeString ==
    Served =>
        response.body.crcl_range =
            ToString(locals.range_low) \o ".0-" \o ToString(locals.range_high)
                \o ".0 mL/min mL/min"

C7_Witness == Served /\ response.body.crcl_range = "79.0-81.0 mL/min mL/min"

\* C8: imperial: weight_kg = weight * 0.453592 and height_in = height;
\* metric: weight_kg = weight and height_in = height / 2.54; and two requests
\* with the same weight_kg, height_in, age, serum_creatinine and sex get the
\* same result whatever their unit systems.
C8_UnitNormalization ==
    Served =>
        /\ form.unit_system = "imperial" =>
               /\ locals.weight_in_kg = FMul(form.weight, Dec(453592, 6))
               /\ locals.height_in_inches = form.height
        /\ form.unit_system = "metric" =>
               /\ locals.weight_in_kg = form.weight
               /\ locals.height_in_inches = FDiv(form.height, Dec(254, 2))
        /\ (/\ prev.set
            /\ prev.locals.weight_in_kg = locals.weight_in_kg
            /\ prev.locals.height_in_inches = locals.height_in_inches
            /\ prev.form.age = form.age
            /\ prev.form.serum_creatinine = form.serum_creatinine
            /\ prev.form.sex = form.sex)
           => prev.locals = locals /\ prev.body = response.body

C8_Witness ==
    /\ Served /\ prev.set
    /\ prev.form.unit_system = "imperial"
    /\ form.unit_system = "metric"
    /\ prev.locals.weight_in_kg = locals.weight_in_kg
    /\ prev.locals.height_in_inches = locals.height_in_inches
    /\ prev.form.age = form.age
    /\ prev.form.sex = form.sex

\* C9: IBW is 50 + 2.3 * (height_in - 60) for male and 45.5 + 2.3 *
\* (height_in - 60) for female with no floor: a short stature is accepted,
\* its IBW is negative, and crcl_using_ibw is computed from it unchanged.
C9_IbwWithoutFloor ==
    /\ (pc = "responded" /\ response.status = 422 /\ "height" \in response.detail)
           => ~IsPositive(form.height)
    /\ Served =>
           /\ locals.ibw =
                  FAdd(IF form.sex = "male" THEN FromInt(50) ELSE Dec(455, 1),
                       FMul(Dec(23, 1), FSub(locals.height_in_inches, FromInt(60))))
           /\ Nearest(locals.crcl_using_ibw,
                      CockcroftGault(form.age, locals.ibw, locals.sex_factor,
                                     form.serum_creatinine))
           /\ (IsNegative(locals.ibw) /\ form.age < 140) => locals.crcl_using_ibw < 0

C9_Witness ==
    /\ Served
    /\ form.sex = "male"
    /\ IsNegative(locals.ibw)
    /\ locals.crcl_using_ibw < 0
    /\ locals.range_low = locals.crcl_using_ibw

=============================================================================
